---- MODULE Spec2Model ----
(***************************************************************************)
(* HttpClientCLI (src/main.rs): a command-line HTTP client.  One           *)
(* invocation parses its arguments, normalises the URL, builds one         *)
(* request, sends it once and prints the response.                         *)
(*                                                                         *)
(* Strings are TLA+ strings; a character is a string of length 1.          *)
(* Option<T> is a sequence of length 0 (None) or 1 (Some).                 *)
(* Result<T, E> is a record with field ok.                                 *)
(***************************************************************************)
EXTENDS Naturals, Sequences, FiniteSets, TLC

VARIABLES
    pc,         \* position of main: see the actions below
    args,       \* the parsed command line (Cli / Commands), raw -H tokens
    fsFile,     \* environment: Option<bytes> of the file named by -f
    headers,    \* Vec<(String, String)>: the -H entries clap collected
    url,        \* the local url after ensure_url_prefix
    fileRead,   \* "none" | "ok" | "err": outcome of fs::read so far
    file_content, \* Option<bytes>: the local file_content of the file branch
    request,    \* Option<request handed to the transport>
    sendCount,  \* number of .send() calls so far
    response,   \* Option<Result<Response, reqwest::Error>>
    stdout,     \* lines written with println!
    stderr,     \* lines written with eprintln! (and clap / panic messages)
    input,      \* pure-function harness: the argument
    results     \* pure-function harness: the values returned so far

vars == <<pc, args, fsFile, headers, url, fileRead, file_content, request,
          sendCount, response, stdout, stderr, input, results>>

mainVars == <<pc, args, fsFile, headers, url, fileRead, file_content, request,
              sendCount, response, stdout, stderr>>

(***************************************************************************)
(* Bounds of the model.                                                    *)
(***************************************************************************)
MaxTokLen == 5          \* longest -H token given to parse_key_val alone
MaxUrlSegs == 2         \* url inputs are made of at most this many segments
MaxEntries == 3         \* longest entry list given to build_headers alone
MaxTokens == 2          \* most -H tokens on one command line
MaxRespHeaders == 3     \* most header lines in one response

(***************************************************************************)
(* Strings.                                                                *)
(***************************************************************************)
Char(s, i) == SubSeq(s, i, i)

Chars(s) == {Char(s, i) : i \in 1..Len(s)}

\* str::starts_with
starts_with(s, p) == Len(s) >= Len(p) /\ SubSeq(s, 1, Len(p)) = p

\* position of the first occurrence of character c in s, 0 when absent
RECURSIVE FindFrom(_, _, _)
FindFrom(s, c, i) ==
    IF i > Len(s) THEN 0
    ELSE IF Char(s, i) = c THEN i
    ELSE FindFrom(s, c, i + 1)

Find(s, c) == FindFrom(s, c, 1)

\* str::splitn(n, c): at most n pieces, the last one holding the rest
RECURSIVE splitn(_, _, _)
splitn(s, n, c) ==
    IF n = 0 THEN <<>>
    ELSE IF n = 1 \/ Find(s, c) = 0 THEN <<s>>
    ELSE <<SubSeq(s, 1, Find(s, c) - 1)>>
            \o splitn(SubSeq(s, Find(s, c) + 1, Len(s)), n - 1, c)

UpperAlpha == "ABCDEFGHIJKLMNOPQRSTUVWXYZ"
LowerAlpha == "abcdefghijklmnopqrstuvwxyz"

\* the lower-case letter of each upper-case letter
LowerOf == [c \in Chars(UpperAlpha) |-> Char(LowerAlpha, Find(UpperAlpha, c))]

ToLowerChar(c) == IF c \in DOMAIN LowerOf THEN LowerOf[c] ELSE c

RECURSIVE ToLower(_)
ToLower(s) ==
    IF s = "" THEN "" ELSE ToLowerChar(Head(s)) \o ToLower(Tail(s))

\* all strings of at most n characters over the alphabet A
RECURSIVE Strs(_, _)
Strs(A, n) ==
    IF n = 0 THEN {""}
    ELSE Strs(A, n - 1) \cup {s \o c : s \in Strs(A, n - 1), c \in A}

\* all sequences of at most n elements of S
RECURSIVE SeqsUpTo(_, _)
SeqsUpTo(S, n) ==
    IF n = 0 THEN {<<>>}
    ELSE SeqsUpTo(S, n - 1) \cup {Append(q, x) : q \in SeqsUpTo(S, n - 1), x \in S}

Ok(v) == [ok |-> TRUE, val |-> v]
Err(e) == [ok |-> FALSE, err |-> e]

(***************************************************************************)
(* parse_key_val, main.rs 102-108.                                         *)
(***************************************************************************)
parse_key_val_rsplit(s) ==
    LET n == Len(s)
        RECURSIVE Last(_)
        Last(i) == IF i = 0 THEN 0 ELSE IF Char(s, i) = "=" THEN i ELSE Last(i - 1)
        k == Last(n)
    IN  IF k = 0 THEN Err("header format: key=value")
        ELSE Ok(<<SubSeq(s, 1, k - 1), SubSeq(s, k + 1, n)>>)

parse_key_val_lenient(s) ==
    LET parts == splitn(s, 2, "=")
    IN  IF Len(parts) # 2 THEN Ok(<<parts[1], "">>)
        ELSE Ok(<<parts[1], parts[2]>>)

parse_key_val(s) ==
    LET parts == splitn(s, 2, "=")
    IN  IF Len(parts) # 2 THEN Err("header format: key=value")
        ELSE Ok(<<parts[1], parts[2]>>)

(***************************************************************************)
(* ensure_url_prefix, main.rs 120-126.                                     *)
(***************************************************************************)
ensure_url_prefix_http_only(u) ==
    IF starts_with(u, "http://") THEN u ELSE "http://" \o u

ensure_url_prefix(u) ==
    IF starts_with(u, "http://") \/ starts_with(u, "https://")
    THEN u
    ELSE "http://" \o u

(***************************************************************************)
(* The header map used by main.rs (reqwest::header::HeaderMap): a          *)
(* multimap kept as a sequence of entries [name, values], one entry per    *)
(* name, in the order in which the names were first inserted.              *)
(***************************************************************************)
\* the characters a header name may hold (RFC 7230 token characters; the
\* backquote is one too, and no input of the model holds it)
TokenChars ==
    Chars("!#$%&'*+-.^_|~0123456789") \cup Chars(LowerAlpha) \cup Chars(UpperAlpha)

\* control characters a header value may not hold
CtlChars == {"\n", "\r", "\f"}

\* HeaderName::from_bytes: rejects an empty name and any non-token
\* character, and lower-cases what it accepts
HeaderName_from_bytes(key) ==
    IF key = "" \/ ~(Chars(key) \subseteq TokenChars)
    THEN Err("InvalidHeaderName")
    ELSE Ok(ToLower(key))

\* HeaderValue::from_str: rejects control characters, accepts the empty value
HeaderValue_from_str(value) ==
    IF Chars(value) \cap CtlChars # {}
    THEN Err("InvalidHeaderValue")
    ELSE Ok(value)

HeaderMap_new == <<>>

\* index of the entry of name in map m, 0 when absent
EntryIndex(m, name) ==
    IF \E i \in 1..Len(m) : m[i].name = name
    THEN CHOOSE i \in 1..Len(m) : m[i].name = name
    ELSE 0

\* HeaderMap::append: adds the value to the values of the name
HeaderMap_append(m, name, val) ==
    IF EntryIndex(m, name) = 0
    THEN Append(m, [name |-> name, values |-> <<val>>])
    ELSE [m EXCEPT ![EntryIndex(m, name)].values = Append(@, val)]

HeaderMap_insert_first_wins(m, name, val) ==
    IF EntryIndex(m, name) = 0
    THEN Append(m, [name |-> name, values |-> <<val>>])
    ELSE m

\* HeaderMap::insert: the value replaces every value of the name
HeaderMap_insert(m, name, val) ==
    IF EntryIndex(m, name) = 0
    THEN Append(m, [name |-> name, values |-> <<val>>])
    ELSE [m EXCEPT ![EntryIndex(m, name)].values = <<val>>]

\* HeaderMap::iter: entry by entry, the values of each entry in turn
RECURSIVE HeaderMap_iter(_)
HeaderMap_iter(m) ==
    IF m = <<>> THEN <<>>
    ELSE [k \in 1..Len(m[1].values) |-> <<m[1].name, m[1].values[k]>>]
            \o HeaderMap_iter(Tail(m))

\* HeaderMap::get_all with a string key: the lookup lower-cases the key
HeaderMap_get_all(m, key) ==
    LET name == HeaderName_from_bytes(key)
    IN  IF ~name.ok \/ EntryIndex(m, name.val) = 0 THEN <<>>
        ELSE m[EntryIndex(m, name.val)].values

(***************************************************************************)
(* build_headers, main.rs 110-118.                                         *)
(***************************************************************************)
RECURSIVE build_headers_loop(_, _)
build_headers_loop(hs, header_map) ==
    IF hs = <<>> THEN header_map
    ELSE LET name == HeaderName_from_bytes(hs[1][1])
             val == HeaderValue_from_str(hs[1][2])
         IN  build_headers_loop(Tail(hs),
                 IF name.ok /\ val.ok
                 THEN HeaderMap_insert(header_map, name.val, val.val)
                 ELSE header_map)

build_headers(hs) == build_headers_loop(hs, HeaderMap_new)

(***************************************************************************)
(* The pure functions on their own: the harness draws an argument and      *)
(* applies the function.                                                   *)
(***************************************************************************)
Idle ==
    /\ pc = "idle"
    /\ args = [cmd |-> "none", url |-> "", data |-> <<>>, file |-> <<>>,
               tokens |-> <<>>]
    /\ fsFile = <<>>
    /\ headers = <<>>
    /\ url = ""
    /\ fileRead = "none"
    /\ file_content = <<>>
    /\ request = <<>>
    /\ sendCount = 0
    /\ response = <<>>
    /\ stdout = <<>>
    /\ stderr = <<>>

\* -H tokens given to parse_key_val
TokenAlphabet == {"=", "a", "b", "c"}
TokenInputs == Strs(TokenAlphabet, MaxTokLen)

InitParse == Idle /\ input \in TokenInputs /\ results = <<>>

CallParseKeyVal ==
    /\ results = <<>>
    /\ results' = <<parse_key_val(input)>>
    /\ UNCHANGED <<mainVars, input>>

SpecParse == InitParse /\ [][CallParseKeyVal]_vars

\* urls given to ensure_url_prefix
UrlSegments == {"http://", "https://", "http:/", "HTTP://", "h", "s", "/", "example.com"}

RECURSIVE Concat(_)
Concat(q) == IF q = <<>> THEN "" ELSE q[1] \o Concat(Tail(q))

UrlInputs == {Concat(q) : q \in SeqsUpTo(UrlSegments, MaxUrlSegs)}

InitUrl == Idle /\ input \in UrlInputs /\ results = <<>>

\* the function applied to the argument, then to its own result
CallEnsureUrlPrefix ==
    /\ Len(results) < 2
    /\ results' = Append(results,
            ensure_url_prefix(IF results = <<>> THEN input ELSE results[Len(results)]))
    /\ UNCHANGED <<mainVars, input>>

SpecUrl == InitUrl /\ [][CallEnsureUrlPrefix]_vars

\* entry lists given to build_headers
EntryNames == {"a", "A", "b", "a b"}
EntryValues == {"1", "2", "3\n"}
EntryInputs == SeqsUpTo({<<n, v>> : n \in EntryNames, v \in EntryValues}, MaxEntries)

InitHeaders == Idle /\ input \in EntryInputs /\ results = <<>>

CallBuildHeaders ==
    /\ results = <<>>
    /\ results' = <<build_headers(input)>>
    /\ UNCHANGED <<mainVars, input>>

SpecHeaders == InitHeaders /\ [][CallBuildHeaders]_vars

(***************************************************************************)
(* The request builder of the transport (reqwest::blocking::RequestBuilder)*)
(* as main.rs uses it.  A request is a record; its headers are a header    *)
(* map.                                                                    *)
(***************************************************************************)
Timeout == 10
CONTENT_TYPE == "content-type"
JsonContentType == "application/json"
\* the multipart content type; its boundary parameter is left out
MultipartContentType == "multipart/form-data"

Method(cmd) ==
    CASE cmd = "get" -> "GET"
      [] cmd = "post" -> "POST"
      [] cmd = "put" -> "PUT"
      [] cmd = "delete" -> "DELETE"

\* client.get(&url) / post / put / delete: a request with no header, no body
NewRequest(cmd, u) ==
    [method |-> Method(cmd), url |-> u, headers |-> HeaderMap_new,
     body |-> <<>>, timeout |-> Timeout]

\* RequestBuilder::headers: every name of the given map replaces that name
\* in the request (its first value is inserted, its other values appended)
RECURSIVE replace_headers(_, _)
replace_headers(dst, src) ==
    IF src = <<>> THEN dst
    ELSE LET e == src[1]
             RECURSIVE Rest(_, _)
             Rest(d, k) ==
                 IF k > Len(e.values) THEN d
                 ELSE Rest(HeaderMap_append(d, e.name, e.values[k]), k + 1)
         IN  replace_headers(Rest(HeaderMap_insert(dst, e.name, e.values[1]), 2),
                             Tail(src))

RequestBuilder_headers(req, map) ==
    [req EXCEPT !.headers = replace_headers(@, map)]

\* RequestBuilder::header: the value is appended to the values of the name
RequestBuilder_header(req, name, val) ==
    [req EXCEPT !.headers = HeaderMap_append(@, name, val)]

\* RequestBuilder::body
RequestBuilder_body(req, data) ==
    [req EXCEPT !.body = <<<<"raw", data>>>>]

\* RequestBuilder::multipart with Form::new().part("file", Part::bytes(..)):
\* the multipart content type is added as a header, the form is the body
RequestBuilder_multipart(req, bytes) ==
    [RequestBuilder_header(req, CONTENT_TYPE, MultipartContentType)
        EXCEPT !.body = <<<<"multipart", "file", bytes>>>>]

\* the request each arm of main builds, main.rs 133-172
BuildRequest_data_first(cmd, u, hs, data, content) ==
    LET req == RequestBuilder_headers(NewRequest(cmd, u), build_headers(hs))
    IN  IF cmd \in {"get", "delete"} THEN req
        ELSE IF data # <<>>
        THEN RequestBuilder_body(
                 RequestBuilder_header(req, CONTENT_TYPE, JsonContentType), data[1])
        ELSE IF content # <<>> THEN RequestBuilder_multipart(req, content[1])
        ELSE req

BuildRequest(cmd, u, hs, data, content) ==
    LET req == RequestBuilder_headers(NewRequest(cmd, u), build_headers(hs))
    IN  IF cmd \in {"get", "delete"} THEN req
        ELSE IF content # <<>> THEN RequestBuilder_multipart(req, content[1])
        ELSE IF data # <<>>
        THEN RequestBuilder_body(
                 RequestBuilder_header(req, CONTENT_TYPE, JsonContentType), data[1])
        ELSE req

(***************************************************************************)
(* The responses the transport may give.                                   *)
(***************************************************************************)
\* reqwest::Error: what Display and what Debug print
TransportErrors ==
    { <<"error sending request: operation timed out", "Error { kind: Request, source: TimedOut }">>,
      <<"error sending request: dns error", "Error { kind: Request, source: Dns }">>,
      <<"error sending request: connection refused", "Error { kind: Request, source: ConnectionRefused }">> }

\* header lines as they arrive
WireHeaders == {<<"A", "1">>, <<"A", "2">>, <<"b", "1">>}

Statuses == {"200 OK", "404 Not Found"}

Responses ==
    {Err(e) : e \in TransportErrors}
    \cup {Ok([status |-> st, wire |-> w, body |-> "hello"]) :
            st \in Statuses, w \in SeqsUpTo(WireHeaders, MaxRespHeaders)}

\* the header map of a response: each line appended in the order received,
\* its name lower-cased
RECURSIVE ResponseHeaderMap(_, _)
ResponseHeaderMap(wire, m) ==
    IF wire = <<>> THEN m
    ELSE ResponseHeaderMap(Tail(wire),
                           HeaderMap_append(m, ToLower(wire[1][1]), wire[1][2]))

\* Debug of a header value of visible characters: the value in quotes
DebugValue(v) == "\"" \o v \o "\""

(***************************************************************************)
(* main, main.rs 128-174, and handle_response, main.rs 176-193.            *)
(***************************************************************************)
MainUrls == {"example.com", "https://example.com"}
MainTokens == {"Content-Type=text/plain", "X-A=1", "novalue"}
MainData == {<<>>, <<"{k:1}">>}
MainFiles == {<<>>, <<"file.txt">>}

ArgSets ==
    {[cmd |-> c, url |-> u, data |-> <<>>, file |-> <<>>, tokens |-> t] :
        c \in {"get", "delete"}, u \in MainUrls,
        t \in SeqsUpTo(MainTokens, MaxTokens)}
    \cup
    {[cmd |-> c, url |-> u, data |-> d, file |-> f, tokens |-> t] :
        c \in {"post", "put"}, u \in MainUrls, d \in MainData, f \in MainFiles,
        t \in SeqsUpTo(MainTokens, MaxTokens)}

Init ==
    /\ pc = "start"
    /\ args \in ArgSets
    /\ fsFile \in (IF args.file = <<>> THEN {<<>>} ELSE {<<>>, <<"bytes">>})
    /\ headers = <<>>
    /\ url = ""
    /\ fileRead = "none"
    /\ file_content = <<>>
    /\ request = <<>>
    /\ sendCount = 0
    /\ response = <<>>
    /\ stdout = <<>>
    /\ stderr = <<>>
    /\ input = ""
    /\ results = <<>>

\* Cli::parse(), line 129: clap gives every -H token to parse_key_val and
\* exits with a usage error at the first one that fails
ParseArgs ==
    /\ pc = "start"
    /\ IF \E i \in 1..Len(args.tokens) : ~parse_key_val(args.tokens[i]).ok
       THEN /\ pc' = "exit_usage"
            /\ stderr' = Append(stderr, <<"usage_error">>)
            /\ UNCHANGED headers
       ELSE /\ pc' = "client"
            /\ headers' = [i \in 1..Len(args.tokens) |-> parse_key_val(args.tokens[i]).val]
            /\ UNCHANGED stderr
    /\ UNCHANGED <<args, fsFile, url, fileRead, file_content, request, sendCount,
                   response, stdout, input, results>>

\* Client::builder().timeout(..).build().expect(..), line 130
BuildClient ==
    /\ pc = "client"
    /\ \E built \in BOOLEAN :
        IF built
        THEN pc' = "dispatch" /\ UNCHANGED stderr
        ELSE pc' = "panicked" /\ stderr' = Append(stderr, <<"panic", "client">>)
    /\ UNCHANGED <<args, fsFile, headers, url, fileRead, file_content, request,
                   sendCount, response, stdout, input, results>>

\* let url = ensure_url_prefix(&url), lines 134, 139, 154, 169
NormalizeUrl ==
    /\ pc = "dispatch"
    /\ url' = ensure_url_prefix(args.url)
    /\ pc' = IF args.cmd \in {"post", "put"} /\ args.file # <<>>
             THEN "read_file" ELSE "send"
    /\ UNCHANGED <<args, fsFile, headers, fileRead, file_content, request,
                   sendCount, response, stdout, stderr, input, results>>

\* fs::read(file_path).expect(..), lines 141 and 156
ReadFile_ignore_error ==
    /\ pc = "read_file"
    /\ IF fsFile = <<>>
       THEN fileRead' = "err" /\ file_content' = <<"">>
       ELSE fileRead' = "ok" /\ file_content' = fsFile
    /\ pc' = "send"
    /\ UNCHANGED <<args, fsFile, headers, url, request, sendCount, response,
                   stdout, stderr, input, results>>

ReadFile ==
    /\ pc = "read_file"
    /\ IF fsFile = <<>>
       THEN /\ fileRead' = "err"
            /\ pc' = "panicked"
            /\ stderr' = Append(stderr, <<"panic", "file">>)
            /\ UNCHANGED file_content
       ELSE /\ fileRead' = "ok"
            /\ file_content' = fsFile
            /\ pc' = "send"
            /\ UNCHANGED stderr
    /\ UNCHANGED <<args, fsFile, headers, url, request, sendCount, response,
                   stdout, input, results>>

\* the request is built and .send() called: lines 135, 142-149, 157-164, 170
Send ==
    /\ pc = "send"
    /\ request' = <<BuildRequest(args.cmd, url, headers, args.data, file_content)>>
    /\ sendCount' = sendCount + 1
    /\ response' \in {<<r>> : r \in Responses}
    /\ pc' = "handle_response"
    /\ UNCHANGED <<args, fsFile, headers, url, fileRead, file_content, stdout,
                   stderr, input, results>>

\* handle_response, Ok arm: the status, the heading, the headers; 179-183
PrintStatusAndHeaders ==
    /\ pc = "handle_response"
    /\ response[1].ok
    /\ LET resp == response[1].val
           it == HeaderMap_iter(ResponseHeaderMap(resp.wire, HeaderMap_new))
       IN  stdout' = stdout \o <<<<"status", resp.status>>, <<"headers_heading">>>>
                \o [k \in 1..Len(it) |-> <<"header", it[k][1], DebugValue(it[k][2])>>]
    /\ pc' = "read_body"
    /\ UNCHANGED <<args, fsFile, headers, url, fileRead, file_content, request,
                   sendCount, response, stderr, input, results>>

\* handle_response, match resp.text(), lines 184-187
PrintBody_unwrap ==
    /\ pc = "read_body"
    /\ \E decoded \in BOOLEAN :
        IF decoded
        THEN /\ stdout' = Append(stdout, <<"body", response[1].val.body>>)
             /\ pc' = "done"
             /\ UNCHANGED stderr
        ELSE /\ stderr' = Append(stderr, <<"panic", "decode">>)
             /\ pc' = "panicked"
             /\ UNCHANGED stdout
    /\ UNCHANGED <<args, fsFile, headers, url, fileRead, file_content, request,
                   sendCount, response, input, results>>

PrintBody ==
    /\ pc = "read_body"
    /\ \E decoded \in BOOLEAN :
        IF decoded
        THEN /\ stdout' = Append(stdout, <<"body", response[1].val.body>>)
             /\ UNCHANGED stderr
        ELSE /\ stderr' = Append(stderr, <<"decode_error">>)
             /\ UNCHANGED stdout
    /\ pc' = "done"
    /\ UNCHANGED <<args, fsFile, headers, url, fileRead, file_content, request,
                   sendCount, response, input, results>>

\* handle_response, Err arm, lines 189-191
ReportRequestError_stdout ==
    /\ pc = "handle_response"
    /\ ~response[1].ok
    /\ stdout' = Append(stdout, <<"request_error", response[1].err[1], response[1].err[2]>>)
    /\ pc' = "done"
    /\ UNCHANGED <<args, fsFile, headers, url, fileRead, file_content, request,
                   sendCount, response, stderr, input, results>>

ReportRequestError ==
    /\ pc = "handle_response"
    /\ ~response[1].ok
    /\ stderr' = Append(stderr, <<"request_error", response[1].err[1], response[1].err[2]>>)
    /\ pc' = "done"
    /\ UNCHANGED <<args, fsFile, headers, url, fileRead, file_content, request,
                   sendCount, response, stdout, input, results>>

Next ==
    \/ ParseArgs
    \/ BuildClient
    \/ NormalizeUrl
    \/ ReadFile
    \/ Send
    \/ PrintStatusAndHeaders
    \/ PrintBody
    \/ ReportRequestError

Spec == Init /\ [][Next]_vars

(***************************************************************************)
(* The claims.                                                             *)
(***************************************************************************)
Max(S) == CHOOSE x \in S : \A y \in S : y <= x

\* C1: for every token holding at least one "=", parse_key_val succeeds and
\* splits on the first "=" only: name, "=", value put together give the
\* token back, and the name holds no "=".
C1_SplitsOnFirstEq ==
    (results # <<>> /\ "=" \in Chars(input)) =>
        /\ results[1].ok
        /\ results[1].val[1] \o "=" \o results[1].val[2] = input
        /\ ~("=" \in Chars(results[1].val[1]))

C1_Witness ==
    /\ input = "a=b=c"
    /\ results = <<Ok(<<"a", "b=c">>)>>

\* C3 (as claimed): every entry parse_key_val produces has a non-empty name
\* and a non-empty value.
C3_EntriesNonEmpty ==
    (results # <<>> /\ results[1].ok) =>
        /\ results[1].val[1] # ""
        /\ results[1].val[2] # ""

\* C5: ensure_url_prefix returns a url that starts with http:// or https://
\* unchanged, any other url with http:// put before it, and applying it to
\* its own result changes nothing.
C5_UrlPrefixIdempotent ==
    /\ Len(results) >= 1 =>
          results[1] = IF \E p \in {"http://", "https://"} : starts_with(input, p)
                       THEN input
                       ELSE "http://" \o input
    /\ Len(results) = 2 => results[2] = results[1]

C5_Witness ==
    /\ input = "example.com"
    /\ results = <<"http://example.com", "http://example.com">>

\* names are the same header name when they differ in letter case only
SameName(a, b) == ToLower(a) = ToLower(b)

\* the entry can be encoded: its name and its value are both accepted
Encodable(e) == HeaderName_from_bytes(e[1]).ok /\ HeaderValue_from_str(e[2]).ok

\* C9 (as claimed): when several entries have the same name, the map holds
\* exactly one value for the name, the value of the last such entry.
C9_LastEntryWins ==
    results # <<>> =>
        \A i \in 1..Len(input) :
            LET same == {j \in 1..Len(input) : SameName(input[j][1], input[i][1])}
            IN  Cardinality(same) >= 2 =>
                    HeaderMap_get_all(results[1], input[i][1]) = <<input[Max(same)][2]>>

\* C9 (amended): for every name of the list, the map holds the value of the
\* last entry of that name that can be encoded, and nothing else for the
\* name; it holds no value for a name none of whose entries can be encoded.
\* What the map holds for a name depends on the entries of that name only.
C9_LastEncodableEntryWins ==
    results # <<>> =>
        /\ \A i \in 1..Len(input) :
            LET same == {j \in 1..Len(input) :
                            SameName(input[j][1], input[i][1]) /\ Encodable(input[j])}
            IN  HeaderMap_get_all(results[1], input[i][1]) =
                    IF same = {} THEN <<>> ELSE <<input[Max(same)][2]>>
        /\ \A k, l \in 1..Len(results[1]) :
                results[1][k].name = results[1][l].name => k = l
        /\ \A k \in 1..Len(results[1]) :
                \E i \in 1..Len(input) :
                    Encodable(input[i]) /\ ToLower(input[i][1]) = results[1][k].name

C9_Witness ==
    /\ input = <<<<"a", "1">>, <<"b", "2">>, <<"A", "3\n">>>>
    /\ results # <<>>
    /\ HeaderMap_get_all(results[1], "a") = <<"1">>
    /\ HeaderMap_get_all(results[1], "b") = <<"2">>

HasMalformedToken == \E i \in 1..Len(args.tokens) : ~("=" \in Chars(args.tokens[i]))

\* C2 (as claimed): with -d and no -f on POST or PUT, the request sent
\* carries application/json as its only Content-Type value.
C2_JsonContentTypeOnly ==
    (request # <<>> /\ args.cmd \in {"post", "put"}
        /\ args.data # <<>> /\ args.file = <<>>) =>
        HeaderMap_get_all(request[1].headers, "Content-Type") = <<JsonContentType>>

\* C4: parse_key_val fails on every token without "=", and an invocation
\* with such a token ends at argument parsing: no file is read, no request
\* is built, nothing is sent.
C4_MalformedTokenStopsAtParsing ==
    HasMalformedToken =>
        /\ \A i \in 1..Len(args.tokens) :
                ~("=" \in Chars(args.tokens[i])) => ~parse_key_val(args.tokens[i]).ok
        /\ pc \in {"start", "exit_usage"}
        /\ fileRead = "none"
        /\ file_content = <<>>
        /\ request = <<>>
        /\ sendCount = 0
        /\ response = <<>>
        /\ stdout = <<>>

C4_Witness ==
    /\ pc = "exit_usage"
    /\ args.tokens = <<"X-A=1", "novalue">>
    /\ args.file # <<>>
    /\ fsFile # <<>>

\* C6: when the file of -f cannot be read the run ends there: nothing is
\* sent and nothing of a response is printed; and whenever a request is sent
\* for an invocation with -f, the file was read before.
C6_FailedReadNeverSends ==
    /\ fileRead = "err" =>
            /\ pc = "panicked"
            /\ ~ENABLED Next
            /\ sendCount = 0
            /\ request = <<>>
            /\ response = <<>>
            /\ stdout = <<>>
    /\ (args.file # <<>> /\ fsFile = <<>>) => sendCount = 0
    /\ (args.file # <<>> /\ sendCount > 0) => fileRead = "ok"

C6_Witness ==
    /\ fileRead = "err"
    /\ pc = "panicked"
    /\ args.cmd = "post"
    /\ args.data # <<>>

\* C7: with both -d and -f the request sent is the file upload: its body is
\* the one-part form with part "file" holding the bytes of the file, not the
\* raw data, and the only Content-Type added to the user headers is the
\* multipart one, not application/json.
C7_FileTakesPrecedence ==
    (request # <<>> /\ args.file # <<>> /\ args.data # <<>>) =>
        /\ request[1].body = <<<<"multipart", "file", fsFile[1]>>>>
        /\ request[1].body # <<<<"raw", args.data[1]>>>>
        /\ HeaderMap_get_all(request[1].headers, "Content-Type") =
                HeaderMap_get_all(build_headers(headers), "Content-Type")
                    \o <<MultipartContentType>>

C7_Witness ==
    /\ request # <<>>
    /\ args.cmd = "put"
    /\ args.file # <<>>
    /\ args.data # <<>>
    /\ request[1].body = <<<<"multipart", "file", "bytes">>>>

\* C8: when the transport fails, whatever the failure, the error summary and
\* its detailed form go to the diagnostic stream, standard output stays
\* empty through the whole invocation, and there is no second send.
C8_TransportFailureReported ==
    (response # <<>> /\ ~response[1].ok) =>
        /\ stdout = <<>>
        /\ sendCount = 1
        /\ pc \in {"handle_response", "done"}
        /\ pc = "done" =>
              /\ stderr = <<<<"request_error", response[1].err[1], response[1].err[2]>>>>
              /\ ~ENABLED Next

C8_Witness ==
    /\ pc = "done"
    /\ response # <<>>
    /\ ~response[1].ok
    /\ response[1].err[1] = "error sending request: operation timed out"
    /\ Len(stderr) = 1

\* the header lines of a response with lower-cased names, in the order
\* received
ReceivedOrder(wire) == [i \in 1..Len(wire) |-> <<ToLower(wire[i][1]), wire[i][2]>>]

\* the same lines grouped by name: the names in the order of their first
\* line, the lines of one name in the order received
RECURSIVE GroupedFrom(_, _)
GroupedFrom(lines, i) ==
    IF i > Len(lines) THEN <<>>
    ELSE (IF \E j \in 1..(i - 1) : lines[j][1] = lines[i][1]
          THEN <<>>
          ELSE SelectSeq(lines, LAMBDA e : e[1] = lines[i][1]))
            \o GroupedFrom(lines, i + 1)

GroupedOrder(wire) == GroupedFrom(ReceivedOrder(wire), 1)

\* what a successful response leaves on the two streams, given the order
\* in which its header lines are printed
PresentedAs(order) ==
    LET resp == response[1].val
        head == <<<<"status", resp.status>>, <<"headers_heading">>>>
                    \o [k \in 1..Len(order) |->
                            <<"header", order[k][1], DebugValue(order[k][2])>>]
    IN  /\ pc \in {"handle_response", "read_body", "done"}
        /\ pc = "handle_response" => stdout = <<>> /\ stderr = <<>>
        /\ pc = "read_body" => stdout = head /\ stderr = <<>>
        /\ pc = "done" =>
              \/ stdout = Append(head, <<"body", resp.body>>) /\ stderr = <<>>
              \/ stdout = head /\ stderr = <<<<"decode_error">>>>

\* C10 (as claimed): the status line, then every response header in the
\* order received, then the body; a body that cannot be decoded leaves the
\* status and headers on standard output, puts the decode error on the
\* diagnostic stream, no body on standard output, and the run ends normally.
C10_HeadersInOrderReceived ==
    (response # <<>> /\ response[1].ok) =>
        PresentedAs(ReceivedOrder(response[1].val.wire))

\* C10 (amended): as claimed, with the response headers grouped by name:
\* the names in the order of their first line, the values of one name in the
\* order received.
C10_HeadersGroupedByName ==
    (response # <<>> /\ response[1].ok) =>
        PresentedAs(GroupedOrder(response[1].val.wire))

C10_Witness ==
    /\ pc = "done"
    /\ response # <<>>
    /\ response[1].ok
    /\ response[1].val.wire = <<<<"A", "1">>, <<"b", "1">>, <<"A", "2">>>>
    /\ stderr = <<<<"decode_error">>>>
    /\ stdout = <<<<"status", response[1].val.status>>, <<"headers_heading">>,
                  <<"header", "a", "\"1\"">>, <<"header", "a", "\"2\"">>,
                  <<"header", "b", "\"1\"">>>>

====
